---- MODULE Spec2Model ----
(***************************************************************************)
(* Authentication and access-control layer of the document-verification   *)
(* backend: password hashing, JWT issuance and validation, the            *)
(* authentication service, the request authenticator and the admin gate.  *)
(*                                                                         *)
(* Time is counted in minutes.  `now' is the true UTC time; the host's    *)
(* local wall clock reads now + utcOffset.                                 *)
(***************************************************************************)
EXTENDS Integers, Sequences, FiniteSets, TLC

VARIABLES
    db,         \* the users table: a set of rows
    nextId,     \* next value of the autoincrement primary key
    now,        \* true UTC time, minutes
    utcOffset,  \* UTC offset of the host's local time zone, minutes
    held,       \* the token text the client is able to present
    heldInfo,   \* how `held' was obtained (issuing call, its inputs, its time)
    resp,       \* outcome of the last call
    infra,      \* what of the infrastructure works: repository, signing, engine
    mgr,        \* db_manager: its engine and SessionLocal attributes
    engines,    \* the Engine objects (connection pools) created so far
    sessions,   \* the Session object made for each request, if any
    reqs,       \* the requests being served, each at its own step
    proc        \* the server process: its environment, settings and JWTHandler

vars == <<db, nextId, now, utcOffset, held, heldInfo, resp,
          infra, mgr, engines, sessions, reqs, proc>>

\* The state of serving concurrent requests, and of the infrastructure.
serving == <<mgr, engines, sessions, reqs>>

(***************************************************************************)
(* Bounds of the model.                                                    *)
(***************************************************************************)
MaxTime == 105
MaxId == 3
MaxRest == 2
MaxReqs == 2

\* create_engine(..., pool_size=5, max_overflow=10): the connections an
\* engine's pool lends at a time.
POOL_SIZE == 5
MAX_OVERFLOW == 10

TickSteps == {15, 30}
UtcOffsets == {-60, 0, 60}

(***************************************************************************)
(* Configuration (app/core/config.py).                                     *)
(***************************************************************************)
SECRET_KEY == "k1"
ALGORITHM == "HS256"
ACCESS_TOKEN_EXP_MIN == 30

\* Python's None where a str is expected.
None == "<None>"

\* The process environment (with the .env file): the text of each variable,
\* None for a variable that is not set.
ConfiguredEnv == [DATABASE_URL |-> "sqlite:///app.db", SECRET_KEY |-> SECRET_KEY,
                  ALGORITHM |-> None, ACCESS_TOKEN_EXP_MIN |-> None]

\* pydantic's parsing of the text of an int field.
IntOfText(text) ==
    CASE text = "30" -> [ok |-> TRUE, value |-> 30]
      [] text = "15" -> [ok |-> TRUE, value |-> 15]
      [] text = "0"  -> [ok |-> TRUE, value |-> 0]
      [] OTHER       -> [ok |-> FALSE, value |-> 0]

NoSettings == [DATABASE_URL |-> "", SECRET_KEY |-> "", ALGORITHM |-> "",
               ACCESS_TOKEN_EXP_MIN |-> 0]

Loaded(settings) == [raised |-> FALSE, error |-> "", settings |-> settings]

LoadError(name) == [raised |-> TRUE, error |-> name, settings |-> NoSettings]

\* A Settings whose signing algorithm defaults to HS512.
Settings_m(env) ==
    IF env.DATABASE_URL = None \/ env.SECRET_KEY = None
      THEN LoadError("ValidationError")
    ELSE IF env.ACCESS_TOKEN_EXP_MIN # None /\ ~IntOfText(env.ACCESS_TOKEN_EXP_MIN).ok
      THEN LoadError("ValidationError")
      ELSE Loaded([DATABASE_URL |-> env.DATABASE_URL,
                   SECRET_KEY |-> env.SECRET_KEY,
                   ALGORITHM |-> IF env.ALGORITHM = None THEN "HS512"
                                                       ELSE env.ALGORITHM,
                   ACCESS_TOKEN_EXP_MIN |->
                       IF env.ACCESS_TOKEN_EXP_MIN = None
                         THEN ACCESS_TOKEN_EXP_MIN
                         ELSE IntOfText(env.ACCESS_TOKEN_EXP_MIN).value])

\* Settings(): the fields without a default are required, an int field's
\* text has to parse, and a field that is not set takes its default.
Settings(env) ==
    IF env.DATABASE_URL = None \/ env.SECRET_KEY = None
      THEN LoadError("ValidationError")
    ELSE IF env.ACCESS_TOKEN_EXP_MIN # None /\ ~IntOfText(env.ACCESS_TOKEN_EXP_MIN).ok
      THEN LoadError("ValidationError")
      ELSE Loaded([DATABASE_URL |-> env.DATABASE_URL,
                   SECRET_KEY |-> env.SECRET_KEY,
                   ALGORITHM |-> IF env.ALGORITHM = None THEN ALGORITHM
                                                       ELSE env.ALGORITHM,
                   ACCESS_TOKEN_EXP_MIN |->
                       IF env.ACCESS_TOKEN_EXP_MIN = None
                         THEN ACCESS_TOKEN_EXP_MIN
                         ELSE IntOfText(env.ACCESS_TOKEN_EXP_MIN).value])

\* Importing app.core.config: settings = Settings(), then the two checks.
config(env) ==
    LET r == Settings(env)
    IN  IF r.raised THEN r
        ELSE IF r.settings.DATABASE_URL = "" THEN LoadError("ValueError")
        ELSE IF r.settings.SECRET_KEY = "" THEN LoadError("ValueError")
        ELSE r

NoHandler == [SECRET_KEY |-> "", ALGORITHM |-> "", ACCESS_TOKEN_EXPIRE_MINUTES |-> 0]

\* JWTHandler.__init__, reading the settings object.
JWTHandler_init(settings) ==
    LET self == [SECRET_KEY |-> settings.SECRET_KEY,
                 ALGORITHM |-> settings.ALGORITHM,
                 ACCESS_TOKEN_EXPIRE_MINUTES |-> settings.ACCESS_TOKEN_EXP_MIN]
    IN  IF self.SECRET_KEY = "" \/ self.ALGORITHM = ""
           \/ self.ACCESS_TOKEN_EXPIRE_MINUTES = 0
          THEN [raised |-> TRUE, error |-> "ValueError", self |-> NoHandler]
          ELSE [raised |-> FALSE, error |-> "", self |-> self]

\* The server process: where its start has got to ("start", "config" once
\* app.core.config is imported, "up" once security = Security() is made,
\* "failed" when an import raised), and what the imports have made.
Process(pc, env, error, settings, jwt_handler) ==
    [pc |-> pc, env |-> env, error |-> error, settings |-> settings,
     jwt_handler |-> jwt_handler]

\* The process started in the configured environment.
Running ==
    LET c == config(ConfiguredEnv)
    IN  Process("up", ConfiguredEnv, "", c.settings, JWTHandler_init(c.settings).self)

\* security.jwt_handler of the running process.
jwt_handler == proc.jwt_handler

(***************************************************************************)
(* Python dict and datetime helpers.                                       *)
(***************************************************************************)
EmptyDict == [k \in {} |-> None]

DictGet(d, k) == IF k \in DOMAIN d THEN d[k] ELSE None

DictUpdate(d, k, v) == [x \in (DOMAIN d) \cup {k} |-> IF x = k THEN v ELSE d[x]]

\* An Optional[timedelta].
NoDelta == [isNone |-> TRUE, minutes |-> 0]
Timedelta(m) == [isNone |-> FALSE, minutes |-> m]

\* bool(expires_delta): None and timedelta(0) are both falsy.
TimedeltaTruthy(delta) == (~delta.isNone) /\ delta.minutes # 0

\* datetime.now(): a naive datetime holding the local wall-clock reading.
DatetimeNowNaive(t, off) == [wall |-> t + off, aware |-> FALSE, offset |-> 0]

DatetimeAdd(dt, m) == [dt EXCEPT !.wall = @ + m]

\* calendar.timegm(dt.utctimetuple()): a naive datetime is taken to be UTC.
TimegmUtc(dt) == IF dt.aware THEN dt.wall - dt.offset ELSE dt.wall

\* datetime.now(tz=timezone.utc).timestamp()
UtcTimestamp(t) == t

(***************************************************************************)
(* The jwt library as used by JWTHandler: HMAC signing is an ideal MAC,    *)
(* the signature being determined by key, algorithm and payload.           *)
(***************************************************************************)
Sign(payload, key, alg) == [key |-> key, alg |-> alg, payload |-> payload]

NoSig == Sign(EmptyDict, "", "")

\* A string that is not a three-segment JWT.
GarbageToken == [wf |-> FALSE, alg |-> "", payload |-> EmptyDict, sig |-> NoSig]

\* jwt.encode(payload, key, algorithm=alg)
JwtEncode(payload, key, alg) ==
    LET claims == [k \in DOMAIN payload |->
                     IF k = "exp" THEN TimegmUtc(payload[k]) ELSE payload[k]]
    IN  [wf |-> TRUE, alg |-> alg, payload |-> claims,
         sig |-> Sign(claims, key, alg)]

\* jwt.decode taking a token for expired only at the very time of its exp
\* claim.
JwtDecode_m13(token, key, algs, t) ==
    IF ~token.wf
      THEN [err |-> "DecodeError", payload |-> EmptyDict]
    ELSE IF token.alg \notin algs
      THEN [err |-> "InvalidAlgorithmError", payload |-> EmptyDict]
    ELSE IF token.sig # Sign(token.payload, key, token.alg)
      THEN [err |-> "InvalidSignatureError", payload |-> EmptyDict]
    ELSE IF "exp" \in DOMAIN token.payload /\ token.payload["exp"] = UtcTimestamp(t)
      THEN [err |-> "ExpiredSignatureError", payload |-> EmptyDict]
    ELSE [err |-> "", payload |-> token.payload]

\* jwt.decode(token, key, algorithms=algs) at UTC time t
JwtDecode(token, key, algs, t) ==
    IF ~token.wf
      THEN [err |-> "DecodeError", payload |-> EmptyDict]
    ELSE IF token.alg \notin algs
      THEN [err |-> "InvalidAlgorithmError", payload |-> EmptyDict]
    ELSE IF token.sig # Sign(token.payload, key, token.alg)
      THEN [err |-> "InvalidSignatureError", payload |-> EmptyDict]
    ELSE IF "exp" \in DOMAIN token.payload /\ token.payload["exp"] <= UtcTimestamp(t)
      THEN [err |-> "ExpiredSignatureError", payload |-> EmptyDict]
    ELSE [err |-> "", payload |-> token.payload]

(***************************************************************************)
(* JWTHandler (app/services/auth/jwt_handlers.py).                         *)
(***************************************************************************)
JWTHandler_create_access_token(data, expires_delta, t, off) ==
    LET ttl == IF TimedeltaTruthy(expires_delta)
                 THEN expires_delta.minutes
                 ELSE jwt_handler.ACCESS_TOKEN_EXPIRE_MINUTES
        expire == DatetimeAdd(DatetimeNowNaive(t, off), ttl)
        to_encode == DictUpdate(data, "exp", expire)
    IN  JwtEncode(to_encode, jwt_handler.SECRET_KEY, jwt_handler.ALGORITHM)

JWTHandler_decode_access_token(token, t) ==
    LET r == JwtDecode(token, jwt_handler.SECRET_KEY, {jwt_handler.ALGORITHM}, t)
    IN  IF r.err = "" THEN DictGet(r.payload, "sub") ELSE None

(***************************************************************************)
(* Password hashing (passlib CryptContext with bcrypt): an ideal salted    *)
(* one-way hash of what bcrypt reads of the plaintext.  bcrypt reads the   *)
(* first 72 bytes of the secret and ignores the rest; passwords here are   *)
(* ASCII, one byte a character.                                            *)
(***************************************************************************)
BcryptInput(password) ==
    IF Len(password) > 72 THEN SubSeq(password, 1, 72) ELSE password

Digest(salt, password) == <<salt, BcryptInput(password)>>

EmptyHash == [scheme |-> "", salt |-> "", digest |-> Digest("", "")]

\* pwd_context.hash(password), the random salt being `salt'
PwdContextHash(password, salt) ==
    [scheme |-> "bcrypt", salt |-> salt, digest |-> Digest(salt, password)]

\* str of a hash, as when a hash is handed on as a password: a text that
\* tells scheme, salt and digest apart.  bcrypt's text has 60 characters;
\* this one stays under 72 for plaintexts of up to 60 characters.
HashText(hash) ==
    "$" \o hash.scheme \o "$" \o hash.salt \o "$" \o hash.digest[2]

\* pwd_context.verify(password, hash): raises on a hash it cannot identify
PwdContextVerify(password, hash) ==
    IF hash.scheme # "bcrypt"
      THEN [raised |-> TRUE, value |-> FALSE]
      ELSE [raised |-> FALSE, value |-> (Digest(hash.salt, password) = hash.digest)]

(***************************************************************************)
(* Outcomes of calls: a returned value or a raised HTTPException.          *)
(***************************************************************************)
NoHeaders == EmptyDict
BearerChallenge == [h \in {"WWW-Authenticate"} |-> "Bearer"]

NoIdentity == [user_id |-> 0, username |-> None, email |-> None,
               is_active |-> FALSE, is_superuser |-> FALSE]

NoUser == [user_id |-> 0, username |-> None, email |-> None,
           hashed_password |-> EmptyHash,
           is_active |-> FALSE, is_superuser |-> FALSE]

Raise(status, detail, headers, effects) ==
    [raised |-> TRUE, status |-> status, detail |-> detail, headers |-> headers,
     token |-> GarbageToken, token_type |-> None, identity |-> NoIdentity,
     username |-> None, effects |-> effects, decoded |-> <<>>]

ReturnToken(token, token_type, effects) ==
    [raised |-> FALSE, status |-> 200, detail |-> "", headers |-> NoHeaders,
     token |-> token, token_type |-> token_type, identity |-> NoIdentity,
     username |-> None, effects |-> effects, decoded |-> <<>>]

ReturnIdentity(identity, effects) ==
    [raised |-> FALSE, status |-> 200, detail |-> "", headers |-> NoHeaders,
     token |-> GarbageToken, token_type |-> None, identity |-> identity,
     username |-> None, effects |-> effects, decoded |-> <<>>]

\* error_response(message, status_code): an error body that is returned, not
\* raised.
ErrorResponse(message, status, effects) ==
    [raised |-> FALSE, status |-> status, detail |-> message, headers |-> NoHeaders,
     token |-> GarbageToken, token_type |-> None, identity |-> NoIdentity,
     username |-> None, effects |-> effects, decoded |-> <<>>]

ReturnUsername(username, effects) ==
    [raised |-> FALSE, status |-> 200, detail |-> "", headers |-> NoHeaders,
     token |-> GarbageToken, token_type |-> None, identity |-> NoIdentity,
     username |-> username, effects |-> effects, decoded |-> <<>>]

\* generic_exception_handler: what the client gets when an exception that is
\* not an HTTPException leaves a handler or a dependency.
Unhandled(effects) ==
    Raise(500, "An unexpected error occurred", NoHeaders, effects)

\* The infrastructure: whether the repository answers queries (repo_ok),
\* whether jwt.encode succeeds (sign_ok), whether create_engine succeeds
\* (engine_ok).
Healthy == [repo_ok |-> TRUE, sign_ok |-> TRUE, engine_ok |-> TRUE]

\* A query of the session raises (sqlalchemy OperationalError).
QueryRaises == ~infra.repo_ok

\* jwt.encode raises; JWTHandler.create_access_token logs and re-raises.
EncodeRaises == ~infra.sign_ok

\* Outcomes of the credential hasher: the Boolean or the hash a call
\* returned, or the exception it raised to its caller inside the process.
ReturnBool(value) ==
    [raised |-> FALSE, error |-> "", value |-> value, hash |-> EmptyHash]

ReturnHash(hash) ==
    [raised |-> FALSE, error |-> "", value |-> FALSE, hash |-> hash]

RaiseError(name) ==
    [raised |-> TRUE, error |-> name, value |-> FALSE, hash |-> EmptyHash]

(***************************************************************************)
(* Security (app/core/security.py).                                        *)
(***************************************************************************)
Security_hash_password(password, salt) ==
    IF password = ""
      THEN [raised |-> TRUE, value |-> EmptyHash]
      ELSE [raised |-> FALSE, value |-> PwdContextHash(password, salt)]

\* The outcome of the call: the Boolean returned, or an exception raised.
\* The mutant leaves out the try/except around the verification function.
Security_verify_password_m(plain_password, hashed_password) ==
    IF plain_password = "" \/ hashed_password = EmptyHash
      THEN [raised |-> FALSE, value |-> FALSE]
      ELSE PwdContextVerify(plain_password, hashed_password)

Security_verify_password(plain_password, hashed_password) ==
    IF plain_password = "" \/ hashed_password = EmptyHash
      THEN [raised |-> FALSE, value |-> FALSE]
      ELSE LET r == PwdContextVerify(plain_password, hashed_password)
           IN  IF r.raised THEN [raised |-> FALSE, value |-> FALSE]
                           ELSE [raised |-> FALSE, value |-> r.value]

\* The mutant reports a failure of jwt.encode as a bad payload.
Security_create_access_token_m(data, expires_delta, t, off) ==
    IF "sub" \notin DOMAIN data \/ EncodeRaises
      THEN Raise(400, "Payload must include 'sub'", NoHeaders,
                 IF "sub" \notin DOMAIN data THEN <<>> ELSE <<"encode">>)
      ELSE ReturnToken(JWTHandler_create_access_token(data, expires_delta, t, off),
                       None, <<"encode">>)

Security_create_access_token(data, expires_delta, t, off) ==
    IF "sub" \notin DOMAIN data
      THEN Raise(400, "Payload must include 'sub'", NoHeaders, <<>>)
    ELSE IF EncodeRaises
      THEN Raise(500, "Token creation failed", NoHeaders, <<"encode">>)
      ELSE ReturnToken(JWTHandler_create_access_token(data, expires_delta, t, off),
                       None, <<"encode">>)

\* JWTHandler.decode_access_token has already turned every decoding failure
\* into None; the value is passed on as it is.
Security_decode_access_token(token, t) ==
    JWTHandler_decode_access_token(token, t)

(***************************************************************************)
(* UserCRUD (app/db/crud/user.py) and the UserResponse schema.             *)
(***************************************************************************)
get_user(d, user_id) ==
    IF \E r \in d : r.user_id = user_id
      THEN CHOOSE r \in d : r.user_id = user_id
      ELSE NoUser

get_user_by_username(d, username) ==
    IF \E r \in d : r.username = username
      THEN CHOOSE r \in d : r.username = username
      ELSE NoUser

\* A create_user on a users table whose username column is not unique.
create_user_m(d, id, user, salt) ==
    LET h == Security_hash_password(user.password, salt)
    IN  IF h.raised \/ (\E r \in d : r.email = user.email)
          THEN NoUser
          ELSE [user_id |-> id, username |-> user.username, email |-> user.email,
                hashed_password |-> h.value,
                is_active |-> user.is_active, is_superuser |-> user.is_superuser]

\* create_user: the row inserted, or NoUser when hashing fails or a unique
\* constraint (username, email) is violated.
create_user(d, id, user, salt) ==
    LET h == Security_hash_password(user.password, salt)
    IN  IF h.raised \/ (\E r \in d : r.username = user.username \/ r.email = user.email)
          THEN NoUser
          ELSE [user_id |-> id, username |-> user.username, email |-> user.email,
                hashed_password |-> h.value,
                is_active |-> user.is_active, is_superuser |-> user.is_superuser]

\* update_user: the table after the call.  The fields set in user_update
\* are written to the row; a username or email another row has makes the
\* commit fail and the table stays as it was.
update_user(d, user_id, user_update, salt) ==
    LET db_user == get_user(d, user_id)
        update_data ==
            IF "password" \in DOMAIN user_update
              THEN [k \in ((DOMAIN user_update) \ {"password"}) \cup {"hashed_password"} |->
                      IF k = "hashed_password"
                        THEN Security_hash_password(user_update["password"], salt).value
                        ELSE user_update[k]]
              ELSE user_update
        row == [f \in DOMAIN db_user |->
                  IF f \in DOMAIN update_data THEN update_data[f] ELSE db_user[f]]
        others == d \ {db_user}
    IN  IF db_user = NoUser
          THEN d
        ELSE IF \E r \in others : r.username = row.username \/ r.email = row.email
          THEN d
          ELSE others \cup {row}

\* delete_user: the table after the call
delete_user(d, user_id) == {r \in d : r.user_id # user_id}

(***************************************************************************)
(* scripts/create_admin.py.                                                *)
(***************************************************************************)
ADMIN_USERNAME == "admin"
ADMIN_EMAIL == "admin@example.com"
ADMIN_PASSWORD == "admin123"

\* EmailStr: whether pydantic takes the text for an email address.
EmailStr(text) == text \in {ADMIN_EMAIL, "a@x.org", "b@x.org"}

\* UserCreate(...): whether the values pass the schema's validation.
UserCreateValid(username, email, password) ==
    /\ Len(username) >= 3 /\ Len(username) <= 50
    /\ EmailStr(email)
    /\ Len(password) >= 8

\* Outcomes of create_admin_user: the id returned (0 for None) or the
\* exception raised, and the table after the call.
AdminReturn(user_id, d) == [raised |-> FALSE, error |-> "", user_id |-> user_id, db |-> d]

AdminRaise(name, d) == [raised |-> TRUE, error |-> name, user_id |-> 0, db |-> d]

\* create_admin_user(db, username, email, password): salt1 is the salt of
\* the script's own hash_password call, salt2 that of create_user's.
create_admin_user(d, id, username, email, password, salt1, salt2) ==
    IF username = "" \/ email = "" \/ password = ""
      THEN AdminRaise("ValueError", d)
    ELSE IF QueryRaises
      THEN AdminRaise("OperationalError", d)
    ELSE IF get_user_by_username(d, username) # NoUser
      THEN AdminReturn(0, d)
      ELSE LET hashed_password == HashText(Security_hash_password(password, salt1).value)
           IN  IF ~UserCreateValid(username, email, hashed_password)
                 THEN AdminRaise("ValidationError", d)
                 ELSE LET admin_user == [username |-> username, email |-> email,
                                         password |-> hashed_password,
                                         is_active |-> TRUE, is_superuser |-> TRUE]
                          created_user == create_user(d, id, admin_user, salt2)
                      IN  IF created_user = NoUser
                            THEN AdminRaise("AttributeError", d)
                            ELSE AdminReturn(created_user.user_id,
                                             d \cup {created_user})

\* An identity whose administrative flag is the one the user registered
\* with (the administrator registers with the address b@x.org), not the one
\* of the row read.
UserResponse_m15(user) ==
    [user_id |-> user.user_id, username |-> user.username, email |-> user.email,
     is_active |-> user.is_active, is_superuser |-> (user.email = "b@x.org")]

\* UserResponse.model_validate(user) / UserResponse.from_orm(user)
UserResponse(user) ==
    [user_id |-> user.user_id, username |-> user.username, email |-> user.email,
     is_active |-> user.is_active, is_superuser |-> user.is_superuser]

(***************************************************************************)
(* AuthService (app/services/auth/auth_service.py).                        *)
(***************************************************************************)
\* authenticate_user reporting an unknown username differently from a wrong
\* password.
AuthService_authenticate_user_m(d, username, password, t, off) ==
    IF username = "" \/ password = ""
      THEN Raise(400, "Username and password required", NoHeaders, <<>>)
    ELSE IF QueryRaises
      THEN Unhandled(<<"lookup">>)
      ELSE LET user == get_user_by_username(d, username)
               v == Security_verify_password(password, user.hashed_password)
           IN  IF user = NoUser
                 THEN Raise(404, "User not found", NoHeaders, <<"lookup">>)
               ELSE IF v.raised
                 THEN Unhandled(<<"lookup", "verify">>)
               ELSE IF ~v.value
                 THEN Raise(401, "Incorrect username or password", BearerChallenge,
                            <<"lookup", "verify">>)
                 ELSE LET c == Security_create_access_token(
                                   [k \in {"sub"} |-> user.username], NoDelta, t, off)
                      IN  IF c.raised
                            THEN c
                            ELSE ReturnToken(c.token, "bearer",
                                             <<"lookup", "verify", "encode">>)

\* authenticate_user testing the username alone for emptiness.
AuthService_authenticate_user_m11(d, username, password, t, off) ==
    IF username = ""
      THEN Raise(400, "Username and password required", NoHeaders, <<>>)
    ELSE IF QueryRaises
      THEN Unhandled(<<"lookup">>)
      ELSE LET user == get_user_by_username(d, username)
               v == Security_verify_password(password, user.hashed_password)
           IN  IF user # NoUser /\ v.raised
                 THEN Unhandled(<<"lookup", "verify">>)
               ELSE IF user = NoUser \/ ~v.value
                 THEN Raise(401, "Incorrect username or password", BearerChallenge,
                            IF user = NoUser THEN <<"lookup">>
                                             ELSE <<"lookup", "verify">>)
                 ELSE LET c == Security_create_access_token(
                                   [k \in {"sub"} |-> user.username], NoDelta, t, off)
                      IN  IF c.raised
                            THEN c
                            ELSE ReturnToken(c.token, "bearer",
                                             <<"lookup", "verify", "encode">>)

AuthService_authenticate_user(d, username, password, t, off) ==
    IF username = "" \/ password = ""
      THEN Raise(400, "Username and password required", NoHeaders, <<>>)
    ELSE IF QueryRaises
      THEN Unhandled(<<"lookup">>)
      ELSE LET user == get_user_by_username(d, username)
               v == Security_verify_password(password, user.hashed_password)
           IN  IF user # NoUser /\ v.raised
                 THEN Unhandled(<<"lookup", "verify">>)
               ELSE IF user = NoUser \/ ~v.value
                 THEN Raise(401, "Incorrect username or password", BearerChallenge,
                            IF user = NoUser THEN <<"lookup">>
                                             ELSE <<"lookup", "verify">>)
                 ELSE LET c == Security_create_access_token(
                                   [k \in {"sub"} |-> user.username], NoDelta, t, off)
                      IN  IF c.raised
                            THEN c
                            ELSE ReturnToken(c.token, "bearer",
                                             <<"lookup", "verify", "encode">>)

AuthService_get_current_user(d, token, t) ==
    LET username == Security_decode_access_token(token, t)
    IN  IF username = None
          THEN Raise(401, "Invalid token", BearerChallenge, <<"decode">>)
        ELSE IF QueryRaises
          THEN Unhandled(<<"decode", "lookup">>)
          ELSE LET user == get_user_by_username(d, username)
               IN  IF user = NoUser
                     THEN Raise(404, "User not found", NoHeaders, <<"decode", "lookup">>)
                     ELSE ReturnIdentity(UserResponse(user), <<"decode", "lookup">>)

(***************************************************************************)
(* Text of an Authorization header: a sequence of symbols.  TOK stands for *)
(* the whole text of the token the client holds (it contains no white      *)
(* space); the other symbols are single characters.                        *)
(***************************************************************************)
TOK == "<token>"
Whitespace == {" ", "\t"}
BearerPrefix == <<"B", "e", "a", "r", "e", "r", " ">>

RECURSIVE LStrip(_)
LStrip(s) == IF s # <<>> /\ Head(s) \in Whitespace THEN LStrip(Tail(s)) ELSE s

RECURSIVE RStrip(_)
RStrip(s) ==
    IF s # <<>> /\ s[Len(s)] \in Whitespace THEN RStrip(SubSeq(s, 1, Len(s) - 1)) ELSE s

\* str.strip()
Strip(s) == RStrip(LStrip(s))

\* str.startswith(prefix)
StartsWith(s, prefix) ==
    Len(s) >= Len(prefix) /\ SubSeq(s, 1, Len(prefix)) = prefix

\* s[len(prefix):]
SliceFrom(s, n) == SubSeq(s, n + 1, Len(s))

\* The token a text denotes: the held token if the text is exactly its text,
\* otherwise a string that is not a JWT.
TokenOfText(text, heldToken) == IF text = <<TOK>> THEN heldToken ELSE GarbageToken

(***************************************************************************)
(* Dependencies (app/core/dependencies.py).                                *)
(***************************************************************************)
\* get_current_user testing the prefix on the header as received.
get_current_user_m(header, heldToken, d, t) ==
    IF header = <<>> \/ ~StartsWith(header, BearerPrefix)
      THEN Raise(401, "Invalid token format", NoHeaders, <<>>)
      ELSE LET token == Strip(SliceFrom(header, Len(BearerPrefix)))
           IN  IF token = <<>>
                 THEN Raise(401, "Token cannot be empty", NoHeaders, <<>>)
                 ELSE LET username ==
                            Security_decode_access_token(TokenOfText(token, heldToken), t)
                      IN  IF username = None \/ username = ""
                            THEN [Raise(401, "Invalid or expired token", NoHeaders,
                                        <<"decode">>) EXCEPT !.decoded = token]
                          ELSE IF QueryRaises
                            THEN [Unhandled(<<"decode", "lookup">>)
                                    EXCEPT !.decoded = token]
                            ELSE LET user == get_user_by_username(d, username)
                                 IN  IF user = NoUser
                                       THEN [Raise(404, "User not found", NoHeaders,
                                                   <<"decode", "lookup">>)
                                               EXCEPT !.decoded = token]
                                       ELSE [ReturnIdentity(UserResponse(user),
                                                            <<"decode", "lookup">>)
                                               EXCEPT !.decoded = token]

\* get_current_user rejecting only a decoding result of None.
get_current_user_m12(header, heldToken, d, t) ==
    IF header = <<>> \/ ~StartsWith(Strip(header), BearerPrefix)
      THEN Raise(401, "Invalid token format", NoHeaders, <<>>)
      ELSE LET token == Strip(SliceFrom(Strip(header), Len(BearerPrefix)))
           IN  IF token = <<>>
                 THEN Raise(401, "Token cannot be empty", NoHeaders, <<>>)
                 ELSE LET username ==
                            Security_decode_access_token(TokenOfText(token, heldToken), t)
                      IN  IF username = None
                            THEN [Raise(401, "Invalid or expired token", NoHeaders,
                                        <<"decode">>) EXCEPT !.decoded = token]
                          ELSE IF QueryRaises
                            THEN [Unhandled(<<"decode", "lookup">>)
                                    EXCEPT !.decoded = token]
                            ELSE LET user == get_user_by_username(d, username)
                                 IN  IF user = NoUser
                                       THEN [Raise(404, "User not found", NoHeaders,
                                                   <<"decode", "lookup">>)
                                               EXCEPT !.decoded = token]
                                       ELSE [ReturnIdentity(UserResponse(user),
                                                            <<"decode", "lookup">>)
                                               EXCEPT !.decoded = token]

get_current_user(header, heldToken, d, t) ==
    IF header = <<>> \/ ~StartsWith(Strip(header), BearerPrefix)
      THEN Raise(401, "Invalid token format", NoHeaders, <<>>)
      ELSE LET token == Strip(SliceFrom(Strip(header), Len(BearerPrefix)))
           IN  IF token = <<>>
                 THEN Raise(401, "Token cannot be empty", NoHeaders, <<>>)
                 ELSE LET username ==
                            Security_decode_access_token(TokenOfText(token, heldToken), t)
                      IN  IF username = None \/ username = ""
                            THEN [Raise(401, "Invalid or expired token", NoHeaders,
                                        <<"decode">>) EXCEPT !.decoded = token]
                          ELSE IF QueryRaises
                            THEN [Unhandled(<<"decode", "lookup">>)
                                    EXCEPT !.decoded = token]
                            ELSE LET user == get_user_by_username(d, username)
                                 IN  IF user = NoUser
                                       THEN [Raise(404, "User not found", NoHeaders,
                                                   <<"decode", "lookup">>)
                                               EXCEPT !.decoded = token]
                                       ELSE [ReturnIdentity(UserResponse(user),
                                                            <<"decode", "lookup">>)
                                               EXCEPT !.decoded = token]

\* A get_admin_user that also refuses an identity that is not active.
get_admin_user_m28(current_user) ==
    IF ~current_user.is_superuser \/ ~current_user.is_active
      THEN Raise(403, "Admin access required", NoHeaders, <<>>)
      ELSE ReturnIdentity(current_user, <<>>)

\* get_admin_user without the privilege check.
get_admin_user_m(current_user) == ReturnIdentity(current_user, <<>>)

get_admin_user(current_user) ==
    IF ~current_user.is_superuser
      THEN Raise(403, "Admin access required", NoHeaders, <<>>)
      ELSE ReturnIdentity(current_user, <<>>)

(***************************************************************************)
(* Inputs the model draws from.                                            *)
(***************************************************************************)
Salts == {"s1", "s2"}

UsernameInputs == {"", "alice", "bob"}
PasswordInputs == {"", "secret123", "hunter2222"}

\* UserCreate payloads that pass the schema's validation.
RegisterInputs ==
    { [username |-> "alice", email |-> "a@x.org", password |-> "secret123",
       is_active |-> TRUE, is_superuser |-> FALSE],
      [username |-> "bob", email |-> "b@x.org", password |-> "secret123",
       is_active |-> TRUE, is_superuser |-> TRUE],
      [username |-> "bob", email |-> "a@x.org", password |-> "hunter2222",
       is_active |-> FALSE, is_superuser |-> FALSE] }

\* Claim mappings handed to create_access_token.
DataInputs ==
    { EmptyDict, [k \in {"sub"} |-> ""], [k \in {"sub"} |-> "alice"] }

DeltaInputs == { NoDelta, Timedelta(-1), Timedelta(0), Timedelta(1) }

\* Plaintexts for the hasher, short ones and ones longer than what bcrypt
\* reads: LongPassword has 72 characters.
LongPassword ==
    "correct horse battery staple correct horse battery staple correct horse!"

PlaintextInputs ==
    { "", "secret123", "Secret123", "hunter2222",
      LongPassword, LongPassword \o "1", LongPassword \o "2" }

ForgeKinds == {"wrong_key", "wrong_alg", "tampered", "garbage"}

\* UserUpdate bodies: the fields that are set.
UpdateInputs ==
    { [k \in {"is_superuser"} |-> TRUE], [k \in {"is_superuser"} |-> FALSE] }

\* States of the infrastructure.
Envs == [repo_ok : BOOLEAN, sign_ok : BOOLEAN, engine_ok : BOOLEAN]
LoginEnvs == { e \in Envs : e.engine_ok }

\* One failure of the infrastructure at a time, or none.
ConcEnvs ==
    { e \in Envs : Cardinality({ f \in DOMAIN e : ~e[f] }) <= 1 }

\* What the concurrent requests ask for.
AskInputs ==
    { [kind |-> "login", username |-> "alice", password |-> "secret123"],
      [kind |-> "login", username |-> "alice", password |-> "hunter2222"],
      [kind |-> "login", username |-> "", password |-> "secret123"],
      [kind |-> "admin", username |-> None, password |-> None] }

\* Texts in the hashed_password column that no call of hash_password wrote:
\* the empty string, a hash of a scheme the context does not know, a bcrypt
\* hash cut short.
CorruptHashes ==
    { EmptyHash,
      [scheme |-> "md5", salt |-> "s1", digest |-> Digest("s1", "secret123")],
      [scheme |-> "bcrypt-cut", salt |-> "s1", digest |-> Digest("s1", "secret123")] }

\* Texts following the "Bearer" prefix in a header.
RECURSIVE TextsUpTo(_)
TextsUpTo(n) ==
    IF n = 0 THEN { <<>> }
    ELSE LET shorter == TextsUpTo(n - 1)
         IN  shorter \cup { Append(s, c) : s \in shorter, c \in {" ", "x", TOK} }

HeaderInputs ==
    { lead \o prefix \o rest :
        lead \in { <<>>, <<" ">> },
        prefix \in { BearerPrefix,
                     <<"B", "e", "a", "r", "e", "r">>,
                     <<"b", "e", "a", "r", "e", "r", " ">>,
                     <<>> },
        rest \in TextsUpTo(MaxRest) }

\* The header a well-behaved client sends.
BearerHeader == BearerPrefix \o <<TOK>>

(***************************************************************************)
(* State machine.                                                          *)
(***************************************************************************)
NoInput == [username |-> None, password |-> None, header |-> <<>>,
            data |-> EmptyDict, delta |-> NoDelta, user_id |-> 0, kind |-> ""]

\* The input of a call of the credential hasher: the plaintext, the hash
\* and the plaintext the hash was made from.
HasherInput(password, hashed, hashed_from) ==
    [password |-> password, hashed |-> hashed, hashed_from |-> hashed_from]

NoInfo == [kind |-> "none", data |-> EmptyDict, delta |-> NoDelta, at |-> 0,
           user_id |-> 0]

Called(op, in, out) == [op |-> op, in |-> in, out |-> out]

\* db_manager as constructed: no engine, no session factory.  An engine is
\* named by a positive number; SessionLocal holds the engine it is bound to.
NoManager == [engine |-> 0, SessionLocal |-> 0]

\* The requests the process serves at a time.
Requests == 1..MaxReqs

\* No Session object.  A Session is bound to an engine; it is "new" until
\* it is first used, "active" while it holds a connection, "closed" after
\* close().
NoSession == [engine |-> 0, state |-> "none"]

\* What a request asks for: the endpoint and the credentials sent.
NoAsk == [kind |-> "", username |-> None, password |-> None]

\* A request that has not arrived.  `need_engine' is the request's reading of
\* `not self.engine' in init(); `db' is the session get_db gave it, named
\* by the request it was made for (0: none); `generator' is the state of
\* the generator db_manager.get_db() made for it; `met' names the infrastructure failure the request ran
\* into.
NoRequest == [pc |-> "none", need_engine |-> FALSE, db |-> 0,
              generator |-> "none", ask |-> NoAsk, met |-> "",
              out |-> ReturnUsername(None, <<>>)]

Idle(op) == Called(op, NoInput, ReturnUsername(None, <<>>))

Init ==
    /\ db = {}
    /\ nextId = 1
    /\ now = 0
    /\ utcOffset \in UtcOffsets
    /\ proc = Running
    /\ held = GarbageToken
    /\ heldInfo = NoInfo
    /\ resp = Idle("init")
    /\ infra = Healthy
    /\ mgr = NoManager
    /\ engines = {}
    /\ sessions = <<>>
    /\ reqs = <<>>

\* Time passes.
Tick(d) ==
    /\ now + d <= MaxTime
    /\ now' = now + d
    /\ resp' = Idle("tick")
    /\ UNCHANGED <<db, nextId, utcOffset, held, heldInfo, infra, proc, serving>>

\* POST /auth/register (register_user)
Register(user, salt) ==
    /\ nextId <= MaxId
    /\ LET existing == get_user_by_username(db, user.username)
           row == create_user(db, nextId, user, salt)
       IN  IF QueryRaises
             THEN /\ resp' = Called("register", [NoInput EXCEPT !.username = user.username],
                                    Unhandled(<<"lookup">>))
                  /\ UNCHANGED <<db, nextId>>
           ELSE IF existing # NoUser
             THEN /\ resp' = Called("register", [NoInput EXCEPT !.username = user.username],
                                    Raise(400, "Username already taken", NoHeaders,
                                          <<"lookup">>))
                  /\ UNCHANGED <<db, nextId>>
           ELSE IF row = NoUser
             THEN /\ resp' = Called("register", [NoInput EXCEPT !.username = user.username],
                                    ErrorResponse("Failed to register user", 400,
                                                  <<"lookup", "insert">>))
                  /\ UNCHANGED <<db, nextId>>
           ELSE /\ db' = db \cup {row}
                /\ nextId' = nextId + 1
                /\ resp' = Called("register", [NoInput EXCEPT !.username = user.username],
                                  ReturnIdentity(UserResponse(row), <<"lookup", "insert">>))
    /\ UNCHANGED <<now, utcOffset, held, heldInfo, infra, proc, serving>>

\* UserCRUD.delete_user(user_id) on an existing row
DeleteUser(user_id) ==
    /\ get_user(db, user_id) # NoUser
    /\ db' = delete_user(db, user_id)
    /\ resp' = Called("delete", [NoInput EXCEPT !.user_id = user_id],
                      ReturnUsername(None, <<"lookup", "delete">>))
    /\ UNCHANGED <<nextId, now, utcOffset, held, heldInfo, infra, proc, serving>>

\* UserCRUD.update_user(user_id, user_update) on an existing row
UpdateUser(user_id, user_update) ==
    /\ get_user(db, user_id) # NoUser
    /\ db' = update_user(db, user_id, user_update, "s1")
    /\ db' # db
    /\ resp' = Called("update", [NoInput EXCEPT !.user_id = user_id],
                      ReturnUsername(None, <<"lookup", "update">>))
    /\ UNCHANGED <<nextId, now, utcOffset, held, heldInfo, infra, proc, serving>>

\* auth_service.authenticate_user(db, username, password); the client keeps
\* the token it is given.
Login(username, password) ==
    LET out == AuthService_authenticate_user(db, username, password, now, utcOffset)
    IN  /\ resp' = Called("login",
                          [NoInput EXCEPT !.username = username, !.password = password],
                          out)
        /\ IF out.raised
             THEN UNCHANGED <<held, heldInfo>>
             ELSE /\ held' = out.token
                  /\ heldInfo' = [kind |-> "login",
                                  data |-> [k \in {"sub"} |-> username],
                                  delta |-> NoDelta, at |-> now,
                                  user_id |-> get_user_by_username(db, username).user_id]
        /\ UNCHANGED <<db, nextId, now, utcOffset, infra, proc, serving>>

\* security.create_access_token(data, expires_delta)
SecurityCreateToken(data, delta) ==
    LET out == Security_create_access_token(data, delta, now, utcOffset)
    IN  /\ resp' = Called("security_create",
                          [NoInput EXCEPT !.data = data, !.delta = delta], out)
        /\ IF out.raised
             THEN UNCHANGED <<held, heldInfo>>
             ELSE /\ held' = out.token
                  /\ heldInfo' = [kind |-> "security", data |-> data, delta |-> delta,
                                  at |-> now, user_id |-> 0]
        /\ UNCHANGED <<db, nextId, now, utcOffset, infra, proc, serving>>

\* JWTHandler().create_access_token(data, expires_delta)
HandlerCreateToken(data, delta) ==
    LET token == JWTHandler_create_access_token(data, delta, now, utcOffset)
    IN  /\ resp' = Called("handler_create",
                          [NoInput EXCEPT !.data = data, !.delta = delta],
                          ReturnToken(token, None, <<"encode">>))
        /\ held' = token
        /\ heldInfo' = [kind |-> "handler", data |-> data, delta |-> delta,
                        at |-> now, user_id |-> 0]
        /\ UNCHANGED <<db, nextId, now, utcOffset, infra, proc, serving>>

\* What a client without the secret can make of a token it holds.
Forged(token, kind) ==
    CASE kind = "wrong_key" ->
           [token EXCEPT !.sig = Sign(token.payload, "k2", token.alg)]
      [] kind = "wrong_alg" ->
           [token EXCEPT !.alg = "HS512",
                         !.sig = Sign(token.payload, SECRET_KEY, "HS512")]
      [] kind = "tampered" ->
           [token EXCEPT !.payload = DictUpdate(token.payload, "sub", "bob")]
      [] OTHER -> GarbageToken

\* The client replaces its token by a forgery made from it.
Forge(kind) ==
    /\ heldInfo.kind \in {"login", "security", "handler"}
    /\ held' = Forged(held, kind)
    /\ heldInfo' = [heldInfo EXCEPT !.kind = kind]
    /\ resp' = Called("forge", [NoInput EXCEPT !.kind = kind], ReturnUsername(None, <<>>))
    /\ UNCHANGED <<db, nextId, now, utcOffset, infra, proc, serving>>

\* security.decode_access_token(token) on the held token
DecodeToken ==
    /\ resp' = Called("decode", NoInput,
                      ReturnUsername(Security_decode_access_token(held, now), <<"decode">>))
    /\ UNCHANGED <<db, nextId, now, utcOffset, held, heldInfo, infra, proc, serving>>

\* auth_service.get_current_user(db, token) on the held token
ResolveIdentity ==
    /\ resp' = Called("resolve", NoInput, AuthService_get_current_user(db, held, now))
    /\ UNCHANGED <<db, nextId, now, utcOffset, held, heldInfo, infra, proc, serving>>

\* A request to an endpoint that depends on get_current_user
CurrentUserRequest(header) ==
    /\ resp' = Called("current_user", [NoInput EXCEPT !.header = header],
                      get_current_user(header, held, db, now))
    /\ UNCHANGED <<db, nextId, now, utcOffset, held, heldInfo, infra, proc, serving>>

\* A request to an endpoint that depends on get_admin_user, which depends on
\* get_current_user.
AdminRequest(header) ==
    LET cu == get_current_user(header, held, db, now)
    IN  /\ resp' = Called("admin", [NoInput EXCEPT !.header = header],
                          IF cu.raised THEN cu ELSE get_admin_user(cu.identity))
        /\ UNCHANGED <<db, nextId, now, utcOffset, held, heldInfo, infra, proc, serving>>

\* The infrastructure changes: the database goes away or comes back, the
\* signing configuration is broken or repaired.
Outage(e) ==
    /\ e # infra
    /\ infra' = e
    /\ resp' = Idle("outage")
    /\ UNCHANGED <<db, nextId, now, utcOffset, held, heldInfo, proc, serving>>

\* The hashed_password column of a row is overwritten from outside the
\* application (the column takes any text).
StoreHash(user_id, hash) ==
    /\ get_user(db, user_id) # NoUser
    /\ get_user(db, user_id).hashed_password # hash
    /\ db' = { IF r.user_id = user_id THEN [r EXCEPT !.hashed_password = hash] ELSE r
                : r \in db }
    /\ resp' = Called("store_hash", [NoInput EXCEPT !.user_id = user_id],
                      ReturnUsername(None, <<"update">>))
    /\ UNCHANGED <<nextId, now, utcOffset, held, heldInfo, infra, proc, serving>>

\* security.hash_password(password)
HashPassword(password, salt) ==
    LET h == Security_hash_password(password, salt)
    IN  /\ resp' = Called("hash", HasherInput(password, EmptyHash, None),
                          IF h.raised
                            THEN RaiseError("ValueError")
                            ELSE ReturnHash(h.value))
        /\ UNCHANGED <<db, nextId, now, utcOffset, held, heldInfo, infra, proc, serving>>

\* security.verify_password(plain_password, hashed_password) on the hash the
\* last call of hash_password returned
VerifyPassword(plain_password) ==
    /\ resp.op = "hash" /\ ~resp.out.raised
    /\ LET v == Security_verify_password(plain_password, resp.out.hash)
       IN  resp' = Called("verify",
                          HasherInput(plain_password, resp.out.hash, resp.in.password),
                          IF v.raised THEN RaiseError("Exception")
                                      ELSE ReturnBool(v.value))
    /\ UNCHANGED <<db, nextId, now, utcOffset, held, heldInfo, infra, proc, serving>>

(***************************************************************************)
(* A request served step by step: FastAPI resolves get_db (which runs      *)
(* db_manager.get_db() up to its yield), runs the dependencies and the     *)
(* handler, then leaves get_db through its finally clause.  Requests run   *)
(* in threads of a pool, so the steps of different requests interleave.    *)
(***************************************************************************)
SetReq(r, fields) ==
    [reqs EXCEPT ![r] = [f \in DOMAIN reqs[r] |->
                           IF f \in DOMAIN fields THEN fields[f] ELSE reqs[r][f]]]

\* Session.close(): the connection goes back to the pool; the object can be
\* used again.
SessionClosed(i) == [sessions EXCEPT ![i].state = "closed"]

\* The connections of engine e that sessions hold.
CheckedOut(e) ==
    Cardinality({ i \in Requests :
                    sessions[i].engine = e /\ sessions[i].state = "active" })

\* The pool of engine e lends a connection without waiting.
PoolHasRoom(e) == CheckedOut(e) < POOL_SIZE + MAX_OVERFLOW

\* init(): `if not self.engine'
CheckEngine(r) ==
    /\ reqs[r].pc = "none"
    /\ reqs' = SetReq(r, [pc |-> "make_engine", need_engine |-> (mgr.engine = 0)])
    /\ UNCHANGED <<db, nextId, now, utcOffset, held, heldInfo, resp, infra, proc,
                   mgr, engines, sessions>>

\* init(): `self.engine = create_engine(...)' if the test said so.  A
\* failure leaves db_manager.get_db() as an exception, which get_db turns
\* into a 503.
MakeEngine(r) ==
    /\ reqs[r].pc = "make_engine"
    /\ IF ~reqs[r].need_engine
         THEN /\ reqs' = SetReq(r, [pc |-> "open"])
              /\ UNCHANGED <<mgr, engines>>
       ELSE IF ~infra.engine_ok
         THEN /\ reqs' = SetReq(r, [pc |-> "done", met |-> "engine",
                                    out |-> Raise(503, "Database unavailable",
                                                  NoHeaders, <<>>)])
              /\ UNCHANGED <<mgr, engines>>
         ELSE LET e == Cardinality(engines) + 1
              IN  /\ engines' = engines \cup {e}
                  /\ mgr' = [mgr EXCEPT !.engine = e]
                  /\ reqs' = SetReq(r, [pc |-> "open"])
    /\ UNCHANGED <<db, nextId, now, utcOffset, held, heldInfo, resp, infra, proc, sessions>>

\* init(): `if not self.SessionLocal: self.SessionLocal = sessionmaker(
\* bind=self.engine)'; then `db = self.SessionLocal()' and the yield, with
\* which next() returns the session to get_db.  The generator stays
\* suspended inside its try block and nothing refers to it any more.
OpenSession(r) ==
    /\ reqs[r].pc = "open"
    /\ LET factory == IF mgr.SessionLocal = 0 THEN mgr.engine ELSE mgr.SessionLocal
       IN  /\ mgr' = [mgr EXCEPT !.SessionLocal = factory]
           /\ sessions' = [sessions EXCEPT ![r] = [engine |-> factory, state |-> "new"]]
           /\ reqs' = SetReq(r, [pc |-> "handle", db |-> r,
                                 generator |-> "suspended"])
    /\ UNCHANGED <<db, nextId, now, utcOffset, held, heldInfo, resp, infra, proc, engines>>

\* The garbage collector finalizes the abandoned generator: GeneratorExit
\* is thrown in at the yield and the finally clause of db_manager.get_db()
\* closes the session -- at once where objects are reference-counted, at
\* some later time otherwise.
FinalizeGenerator(r) ==
    /\ reqs[r].generator = "suspended"
    /\ sessions' = SessionClosed(reqs[r].db)
    /\ reqs' = SetReq(r, [generator |-> "finalized"])
    /\ UNCHANGED <<db, nextId, now, utcOffset, held, heldInfo, resp, infra, proc,
                   mgr, engines>>

\* What the dependencies and the handler of the endpoint asked for produce.
Served(ask) ==
    CASE ask.kind = "login" ->
           AuthService_authenticate_user(db, ask.username, ask.password, now, utcOffset)
      [] OTHER ->
           LET cu == get_current_user(BearerHeader, held, db, now)
           IN  IF cu.raised THEN cu ELSE get_admin_user(cu.identity)

\* The infrastructure failure a call with this outcome ran into.
FailureMet(out) ==
    IF out.effects # <<>> /\ out.effects[Len(out.effects)] = "lookup" /\ QueryRaises
      THEN "repository"
    ELSE IF out.effects # <<>> /\ out.effects[Len(out.effects)] = "encode"
            /\ EncodeRaises
      THEN "signing"
      ELSE ""

\* The dependencies and the handler run with the session.  A query takes a
\* connection from the pool of the session's engine, waiting for one if the
\* pool has lent them all.
Handle(r, ask) ==
    /\ reqs[r].pc = "handle"
    /\ LET out == Served(ask)
           i == reqs[r].db
           queries == \E k \in DOMAIN out.effects : out.effects[k] = "lookup"
       IN  /\ queries => PoolHasRoom(sessions[i].engine)
           /\ sessions' = IF queries THEN [sessions EXCEPT ![i].state = "active"]
                                     ELSE sessions
           /\ reqs' = SetReq(r, [pc |-> "respond", ask |-> ask, out |-> out,
                                 met |-> FailureMet(out)])
    /\ UNCHANGED <<db, nextId, now, utcOffset, held, heldInfo, resp, infra, proc,
                   mgr, engines>>

\* get_db closing the session on a return of the handler only.
get_db_exit_m(state, out) == IF out.raised THEN state ELSE "closed"

\* get_db after its yield: `finally: db.close()', whatever the outcome.
get_db_exit(state, out) == "closed"

\* The request ends: FastAPI leaves get_db and sends the response.
Release(r) ==
    /\ reqs[r].pc = "respond"
    /\ LET i == reqs[r].db
       IN  sessions' = [sessions EXCEPT
                          ![i].state = get_db_exit(sessions[i].state, reqs[r].out)]
    /\ reqs' = SetReq(r, [pc |-> "done"])
    /\ UNCHANGED <<db, nextId, now, utcOffset, held, heldInfo, resp, infra, proc,
                   mgr, engines>>

Next ==
    \/ \E d \in TickSteps : Tick(d)
    \/ \E user \in RegisterInputs, salt \in Salts : Register(user, salt)
    \/ \E id \in 1..MaxId : DeleteUser(id)
    \/ \E u \in UsernameInputs, p \in PasswordInputs : Login(u, p)
    \/ ResolveIdentity
    \/ CurrentUserRequest(BearerHeader)
    \/ AdminRequest(BearerHeader)

Spec == Init /\ [][Next]_vars

\* The token codec alone: tokens are created, forged, decoded; time passes.
NextCodec ==
    \/ \E d \in TickSteps : Tick(d)
    \/ \E data \in DataInputs, delta \in DeltaInputs : SecurityCreateToken(data, delta)
    \/ \E data \in DataInputs, delta \in DeltaInputs : HandlerCreateToken(data, delta)
    \/ \E kind \in ForgeKinds : Forge(kind)
    \/ DecodeToken

SpecCodec == Init /\ [][NextCodec]_vars

\* The request authenticator over every header text.
NextGate ==
    \/ Tick(ACCESS_TOKEN_EXP_MIN)
    \/ \E user \in RegisterInputs : Register(user, "s1")
    \/ \E u \in {"alice", "bob"} : Login(u, "secret123")
    \/ \E header \in HeaderInputs : CurrentUserRequest(header)

SpecGate == Init /\ [][NextGate]_vars

\* The credential hasher alone: plaintexts are hashed and the hashes
\* verified against plaintexts.
NextHash ==
    \/ \E p \in PlaintextInputs, salt \in Salts : HashPassword(p, salt)
    \/ \E p \in PlaintextInputs : VerifyPassword(p)

SpecHash == Init /\ [][NextHash]_vars

\* Requests served concurrently by a process that has served none yet.
\* alice is registered; bob registered after her, logged in and was then
\* deleted; the client holds the token of one of them, issued at time 0 on
\* a host at UTC.
InitConc ==
    /\ db = { create_user({}, 1, CHOOSE u \in RegisterInputs : u.username = "alice",
                          "s1") }
    /\ nextId = 3
    /\ now = 0
    /\ utcOffset = 0
    /\ proc = Running
    /\ \E u \in {"alice", "bob"} :
         /\ held = JWTHandler_create_access_token([k \in {"sub"} |-> u], NoDelta, 0, 0)
         /\ heldInfo = [kind |-> "login", data |-> [k \in {"sub"} |-> u],
                        delta |-> NoDelta, at |-> 0,
                        user_id |-> IF u = "alice" THEN 1 ELSE 2]
    /\ resp = Idle("init")
    /\ infra \in ConcEnvs
    /\ mgr = NoManager
    /\ engines = {}
    /\ sessions = [r \in Requests |-> NoSession]
    /\ reqs = [r \in Requests |-> NoRequest]

NextConc ==
    \/ \E r \in Requests : CheckEngine(r)
    \/ \E r \in Requests : MakeEngine(r)
    \/ \E r \in Requests : OpenSession(r)
    \/ \E r \in Requests : FinalizeGenerator(r)
    \/ \E r \in Requests, ask \in AskInputs : Handle(r, ask)
    \/ \E r \in Requests : Release(r)

SpecConc == InitConc /\ [][NextConc]_vars

\* Logging in against rows with sound and unsound hashes, the repository
\* and the signing working or not.
NextLogin ==
    \/ \E e \in LoginEnvs : Outage(e)
    \/ \E user \in RegisterInputs : Register(user, "s1")
    \/ \E id \in 1..MaxId, hash \in CorruptHashes : StoreHash(id, hash)
    \/ \E u \in UsernameInputs, p \in PasswordInputs : Login(u, p)

SpecLogin == Init /\ [][NextLogin]_vars

\* Tokens of every kind presented to both resolvers of the identity: issued
\* with and without a subject, with and without a ttl, forged, expired.
NextFail ==
    \/ Tick(ACCESS_TOKEN_EXP_MIN)
    \/ \E user \in RegisterInputs : Register(user, "s1")
    \/ \E data \in DataInputs, delta \in {NoDelta, Timedelta(-1)} :
          SecurityCreateToken(data, delta)
    \/ \E data \in DataInputs : HandlerCreateToken(data, NoDelta)
    \/ \E kind \in ForgeKinds : Forge(kind)
    \/ CurrentUserRequest(BearerHeader)
    \/ ResolveIdentity

SpecFail == Init /\ [][NextFail]_vars

\* One token presented again and again while the table changes under it.
NextFresh ==
    \/ Tick(ACCESS_TOKEN_EXP_MIN)
    \/ \E user \in RegisterInputs : Register(user, "s1")
    \/ \E id \in 1..MaxId : DeleteUser(id)
    \/ \E id \in 1..MaxId, upd \in UpdateInputs : UpdateUser(id, upd)
    \/ \E u \in {"alice", "bob"} : Login(u, "secret123")
    \/ DecodeToken
    \/ CurrentUserRequest(BearerHeader)
    \/ AdminRequest(BearerHeader)

SpecFresh == Init /\ [][NextFresh]_vars

(***************************************************************************)
(* Process start: the environment is read when app.core.config is         *)
(* imported, and the JWTHandler is made when app.core.security is; the    *)
(* process serves requests once both imports have succeeded.              *)
(***************************************************************************)
EnvInputs ==
    [DATABASE_URL : {None, "", "sqlite:///app.db"},
     SECRET_KEY : {None, "", " ", SECRET_KEY},
     ALGORITHM : {None, "", "HS512"},
     ACCESS_TOKEN_EXP_MIN : {None, "0", "15", "abc"}]

\* import app.core.config
ImportConfig ==
    /\ proc.pc = "start"
    /\ LET r == config(proc.env)
       IN  proc' = IF r.raised
                     THEN Process("failed", proc.env, r.error, NoSettings, NoHandler)
                     ELSE Process("config", proc.env, "", r.settings, NoHandler)
    /\ resp' = Idle("import_config")
    /\ UNCHANGED <<db, nextId, now, utcOffset, held, heldInfo, infra, serving>>

\* import app.core.security: security = Security(), which makes JWTHandler()
ImportSecurity ==
    /\ proc.pc = "config"
    /\ LET h == JWTHandler_init(proc.settings)
       IN  proc' = IF h.raised
                     THEN Process("failed", proc.env, h.error, proc.settings, NoHandler)
                     ELSE Process("up", proc.env, "", proc.settings, h.self)
    /\ resp' = Idle("import_security")
    /\ UNCHANGED <<db, nextId, now, utcOffset, held, heldInfo, infra, serving>>

\* Both imports have succeeded: the application object exists.
Up == proc.pc = "up"

InitBoot ==
    /\ db = {}
    /\ nextId = 1
    /\ now = 0
    /\ utcOffset = 0
    /\ \E env \in EnvInputs : proc = Process("start", env, "", NoSettings, NoHandler)
    /\ held = GarbageToken
    /\ heldInfo = NoInfo
    /\ resp = Idle("init")
    /\ infra = Healthy
    /\ mgr = NoManager
    /\ engines = {}
    /\ sessions = <<>>
    /\ reqs = <<>>

NextBoot ==
    \/ ImportConfig
    \/ ImportSecurity
    \/ Tick(15)
    \/ Up /\ \E delta \in {NoDelta, Timedelta(15)} :
               SecurityCreateToken([k \in {"sub"} |-> "alice"], delta)
    \/ Up /\ DecodeToken

SpecBoot == InitBoot /\ [][NextBoot]_vars

\* What a client without an account can do: register, log in, and present
\* the token it was given.
NextPublic ==
    \/ Tick(15)
    \/ \E user \in RegisterInputs, salt \in Salts : Register(user, salt)
    \/ \E u \in {"alice", "bob"}, p \in {"secret123", "hunter2222"} : Login(u, p)
    \/ CurrentUserRequest(BearerHeader)
    \/ AdminRequest(BearerHeader)

SpecPublic == Init /\ [][NextPublic]_vars

(***************************************************************************)
(* The administrator's script beside the public endpoints.                *)
(***************************************************************************)
AdminInputs ==
    [username : {"", "ad", ADMIN_USERNAME, "alice"},
     email : {ADMIN_EMAIL, "a@x.org"},
     password : {ADMIN_PASSWORD}]

\* python scripts/create_admin.py --username .. --email .. --password ..
CreateAdmin(args, salt1, salt2) ==
    /\ nextId <= MaxId
    /\ LET out == create_admin_user(db, nextId, args.username, args.email,
                                    args.password, salt1, salt2)
       IN  /\ db' = out.db
           /\ nextId' = IF out.db = db THEN nextId ELSE nextId + 1
           /\ resp' = Called("create_admin", args,
                             [raised |-> out.raised, error |-> out.error,
                              user_id |-> out.user_id])
    /\ UNCHANGED <<now, utcOffset, held, heldInfo, infra, proc, serving>>

NextAdmin ==
    \/ \E user \in RegisterInputs : Register(user, "s1")
    \/ \E args \in AdminInputs, salt1, salt2 \in Salts : CreateAdmin(args, salt1, salt2)
    \/ \E u \in {ADMIN_USERNAME, "alice"}, p \in {ADMIN_PASSWORD, "secret123"} :
         Login(u, p)
    \/ AdminRequest(BearerHeader)

SpecAdmin == Init /\ [][NextAdmin]_vars

(***************************************************************************)
(* Concurrent registration: register_user runs in a worker thread, one    *)
(* per request.  Its existence check and its insert are two statements;   *)
(* the insert and its commit are one step of the database, which is what  *)
(* enforces the unique constraints of the users table.                    *)
(***************************************************************************)
NoRegistration ==
    [pc |-> "none", user |-> NoUser, out |-> ReturnUsername(None, <<>>),
     why |-> {}, changed |-> FALSE]

\* Which unique constraints of the users table a new row for `user' would
\* violate.
Conflicts(d, user) ==
    {c \in {"username", "email"} : \E row \in d : row[c] = user[c]}

\* A POST /auth/register arrives.
RegisterArrives(r, user) ==
    /\ reqs[r].pc = "none"
    /\ reqs' = [reqs EXCEPT ![r] = [NoRegistration EXCEPT !.pc = "check", !.user = user]]
    /\ UNCHANGED <<db, nextId, now, utcOffset, held, heldInfo, resp, infra, proc,
                   mgr, engines, sessions>>

\* user_crud.get_user_by_username(user.username), and the 400 if it finds a row
RegisterCheck(r) ==
    /\ reqs[r].pc = "check"
    /\ LET user == reqs[r].user
           existing == get_user_by_username(db, user.username)
       IN  reqs' = [reqs EXCEPT ![r] =
                      IF existing # NoUser
                        THEN [@ EXCEPT !.pc = "done", !.why = {"username"},
                                       !.out = Raise(400, "Username already taken",
                                                     NoHeaders, <<"lookup">>)]
                        ELSE [@ EXCEPT !.pc = "insert"]]
    /\ UNCHANGED <<db, nextId, now, utcOffset, held, heldInfo, resp, infra, proc,
                   mgr, engines, sessions>>

\* user_crud.create_user(user), and the response made of its result
RegisterInsert(r, salt) ==
    /\ reqs[r].pc = "insert"
    /\ nextId <= MaxId
    /\ LET user == reqs[r].user
           row == create_user(db, nextId, user, salt)
       IN  IF row = NoUser
             THEN /\ reqs' = [reqs EXCEPT ![r] =
                                [@ EXCEPT !.pc = "done", !.why = Conflicts(db, user),
                                          !.out = ErrorResponse("Failed to register user",
                                                                400, <<"lookup", "insert">>)]]
                  /\ UNCHANGED <<db, nextId>>
             ELSE /\ db' = db \cup {row}
                  /\ nextId' = nextId + 1
                  /\ reqs' = [reqs EXCEPT ![r] =
                                [@ EXCEPT !.pc = "done", !.changed = TRUE,
                                          !.out = ReturnIdentity(UserResponse(row),
                                                                 <<"lookup", "insert">>)]]
    /\ UNCHANGED <<now, utcOffset, held, heldInfo, resp, infra, proc,
                   mgr, engines, sessions>>

InitReg ==
    /\ db = {}
    /\ nextId = 1
    /\ now = 0
    /\ utcOffset = 0
    /\ proc = Running
    /\ held = GarbageToken
    /\ heldInfo = NoInfo
    /\ resp = Idle("init")
    /\ infra = Healthy
    /\ mgr = NoManager
    /\ engines = {}
    /\ sessions = <<>>
    /\ reqs = [r \in Requests |-> NoRegistration]

NextReg ==
    \/ \E r \in Requests, user \in RegisterInputs : RegisterArrives(r, user)
    \/ \E r \in Requests : RegisterCheck(r)
    \/ \E r \in Requests, salt \in Salts : RegisterInsert(r, salt)

SpecReg == InitReg /\ [][NextReg]_vars

(***************************************************************************)
(* DELETE /admin/users/{user_id} (app/api/v1/endpoints/admin.py), served  *)
(* step by step beside other requests to it.                              *)
(***************************************************************************)
NoDeletion ==
    [pc |-> "none", admin_user |-> NoIdentity, target |-> 0, called |-> FALSE,
     removed |-> FALSE, out |-> ReturnUsername(None, <<>>)]

\* What can go wrong inside UserCRUD.delete_user: its query or its commit.
Faults == {"none", "query", "commit"}

\* The token a login of username gave at time 0.
TokenOf(username) ==
    JWTHandler_create_access_token([k \in {"sub"} |-> username], NoDelta, 0, 0)

\* The request arrives with the token of `username'; get_admin_user
\* resolves the caller before the handler runs.
DeleteArrives(r, username, user_id) ==
    /\ reqs[r].pc = "none"
    /\ LET cu == get_current_user(BearerHeader, TokenOf(username), db, now)
           adm == IF cu.raised THEN cu ELSE get_admin_user(cu.identity)
       IN  reqs' = [reqs EXCEPT ![r] =
                      IF adm.raised
                        THEN [NoDeletion EXCEPT !.pc = "done", !.target = user_id,
                                                !.out = adm]
                        ELSE [NoDeletion EXCEPT !.pc = "lookup", !.target = user_id,
                                                !.admin_user = adm.identity]]
    /\ UNCHANGED <<db, nextId, now, utcOffset, held, heldInfo, resp, infra, proc,
                   mgr, engines, sessions>>

\* A lookup step without the comparison of the target with the caller.
DeleteLookup_m(r) ==
    /\ reqs[r].pc = "lookup"
    /\ LET user == get_user(db, reqs[r].target)
       IN  reqs' = [reqs EXCEPT ![r] =
                      IF user = NoUser
                        THEN [@ EXCEPT !.pc = "done",
                                       !.out = Raise(404, "User not found", NoHeaders,
                                                     <<"lookup">>)]
                        ELSE [@ EXCEPT !.pc = "delete"]]
    /\ UNCHANGED <<db, nextId, now, utcOffset, held, heldInfo, resp, infra, proc,
                   mgr, engines, sessions>>

\* user = user_crud.get_user(user_id) and the two refusals
DeleteLookup(r) ==
    /\ reqs[r].pc = "lookup"
    /\ LET user == get_user(db, reqs[r].target)
       IN  reqs' = [reqs EXCEPT ![r] =
                      IF user = NoUser
                        THEN [@ EXCEPT !.pc = "done",
                                       !.out = Raise(404, "User not found", NoHeaders,
                                                     <<"lookup">>)]
                      ELSE IF user.user_id = reqs[r].admin_user.user_id
                        THEN [@ EXCEPT !.pc = "done",
                                       !.out = Raise(400, "Cannot delete self", NoHeaders,
                                                     <<"lookup">>)]
                        ELSE [@ EXCEPT !.pc = "delete"]]
    /\ UNCHANGED <<db, nextId, now, utcOffset, held, heldInfo, resp, infra, proc,
                   mgr, engines, sessions>>

\* user_crud.delete_user(user_id) inside the handler's try, and the response.
\* UserCRUD.delete_user looks the row up again (outside its own try), deletes
\* and commits, and answers False when there is no row or the commit fails;
\* the handler does not read the answer.
DeleteCall(r, fault) ==
    /\ reqs[r].pc = "delete"
    /\ LET db_user == get_user(db, reqs[r].target)
           removed == db_user # NoUser /\ fault = "none"
       IN  IF fault = "query"
             THEN /\ reqs' = [reqs EXCEPT ![r] =
                                [@ EXCEPT !.pc = "done", !.called = TRUE,
                                          !.out = Raise(500, "Failed to delete user",
                                                        NoHeaders, <<"lookup", "delete">>)]]
                  /\ UNCHANGED db
             ELSE /\ reqs' = [reqs EXCEPT ![r] =
                                [@ EXCEPT !.pc = "done", !.called = TRUE,
                                          !.removed = removed,
                                          !.out = ReturnUsername(None,
                                                                 <<"lookup", "delete">>)]]
                  /\ db' = IF removed THEN delete_user(db, reqs[r].target) ELSE db
    /\ UNCHANGED <<nextId, now, utcOffset, held, heldInfo, resp, infra, proc,
                   mgr, engines, sessions>>

\* Two accounts, bob an administrator and alice one or not, neither token
\* expired on a host at UTC.
InitDel ==
    /\ \E flag \in BOOLEAN :
         db = update_user(
                { create_user({}, 1, CHOOSE u \in RegisterInputs : u.email = "b@x.org", "s1"),
                  create_user({}, 2, CHOOSE u \in RegisterInputs : u.username = "alice", "s1") },
                2, [k \in {"is_superuser"} |-> flag], "s1")
    /\ nextId = 3
    /\ now = 0
    /\ utcOffset = 0
    /\ proc = Running
    /\ held = GarbageToken
    /\ heldInfo = NoInfo
    /\ resp = Idle("init")
    /\ infra = Healthy
    /\ mgr = NoManager
    /\ engines = {}
    /\ sessions = <<>>
    /\ reqs = [r \in Requests |-> NoDeletion]

NextDel ==
    \/ \E r \in Requests, u \in {"alice", "bob"}, id \in 1..MaxId : DeleteArrives(r, u, id)
    \/ \E r \in Requests : DeleteLookup(r)
    \/ \E r \in Requests, fault \in Faults : DeleteCall(r, fault)

SpecDel == InitDel /\ [][NextDel]_vars

(***************************************************************************)
(* Properties.                                                             *)
(***************************************************************************)
\* The signature of a token verifies against the configured secret and
\* algorithm.
SigVerifies(token) ==
    /\ token.wf
    /\ token.alg = ALGORITHM
    /\ token.sig = Sign(token.payload, SECRET_KEY, ALGORITHM)

\* The plaintext is the one the stored hash was made from.
PasswordMatches(password, hash) ==
    hash.scheme = "bcrypt" /\ hash.digest = Digest(hash.salt, password)

\* What a caller can observe of a failure.
Observable(out) == <<out.raised, out.status, out.detail, out.headers>>

AllWhitespace(s) == \A i \in 1..Len(s) : s[i] \in Whitespace

CreateOps == {"security_create", "handler_create"}

\* Lemma: at every time, decoding the held token yields its subject exactly
\* when its signature verifies and the time is strictly before its exp claim,
\* and None otherwise.
DecodeFollowsExpClaim ==
    Security_decode_access_token(held, now) =
        IF SigVerifies(held) /\ now < held.payload["exp"]
          THEN DictGet(held.payload, "sub")
          ELSE None

\* C1: decode_access_token returns the token's subject if and only if the
\* signature verifies and the time is strictly before the expiration, and
\* None in every other case; in particular a token encoded (here with a
\* subject) with a negative ttl decodes to None.
C1_DecodeValidity ==
    /\ DecodeFollowsExpClaim
    /\ (heldInfo.kind \in {"security", "handler"}
          /\ DictGet(heldInfo.data, "sub") \notin {None, ""}
          /\ ~heldInfo.delta.isNone /\ heldInfo.delta.minutes < 0)
       => Security_decode_access_token(held, now) = None

\* C2: with non-empty credentials, authenticate_user fails with the same
\* observable error (status 401, same detail, same headers) for a username
\* that has no record as for a record whose password does not verify.
C2_SameFailure ==
    \A u1, u2 \in UsernameInputs \ {""} : \A p1, p2 \in PasswordInputs \ {""} :
        LET rec2 == get_user_by_username(db, u2)
            r1 == AuthService_authenticate_user(db, u1, p1, now, utcOffset)
            r2 == AuthService_authenticate_user(db, u2, p2, now, utcOffset)
        IN  ( /\ get_user_by_username(db, u1) = NoUser
              /\ rec2 # NoUser
              /\ ~PasswordMatches(p2, rec2.hashed_password) )
            => /\ r1.raised /\ r1.status = 401
               /\ Observable(r1) = Observable(r2)

\* A login with a wrong password for an existing user has just failed while
\* some other username has no record.
C2_Witness ==
    /\ resp.op = "login" /\ resp.out.status = 401
    /\ resp.in.password # ""
    /\ get_user_by_username(db, resp.in.username) # NoUser
    /\ \E u \in UsernameInputs \ {""} : get_user_by_username(db, u) = NoUser

\* C3: while a login token is within its ttl, resolving it returns the
\* identity of the user of that name if the record exists and fails with 404
\* (not 401) if the record has been deleted, and the token still decodes to
\* the username.
C3_Staleness ==
    (heldInfo.kind = "login" /\ now - heldInfo.at < ACCESS_TOKEN_EXP_MIN)
    => LET u == heldInfo.data["sub"]
           r == AuthService_get_current_user(db, held, now)
           g == get_current_user(BearerHeader, held, db, now)
       IN  /\ Security_decode_access_token(held, now) = u
           /\ IF \E row \in db : row.username = u
                THEN /\ ~r.raised /\ r.identity.username = u
                     /\ ~g.raised /\ g.identity.username = u
                ELSE /\ r.raised /\ r.status = 404
                     /\ g.raised /\ g.status = 404

\* The request authenticator rejected the header for its format, before any
\* decoding or lookup.
GateRejectsFormat(out) ==
    /\ out.raised /\ out.status = 401
    /\ out.detail \in {"Invalid token format", "Token cannot be empty"}
    /\ out.effects = <<>>

GatePassesOn(out, text) ==
    /\ out.effects # <<>> /\ Head(out.effects) = "decode"
    /\ out.decoded = text

\* C4 as stated: get_current_user rejects the header for its format exactly
\* when the value does not begin with "Bearer " or the remainder is empty or
\* whitespace-only, and otherwise passes exactly the remainder to decoding.
C4_HeaderFormat ==
    resp.op = "current_user"
    => LET h == resp.in.header
           rest == SliceFrom(h, Len(BearerPrefix))
       IN  IF ~StartsWith(h, BearerPrefix) \/ AllWhitespace(rest)
             THEN GateRejectsFormat(resp.out)
             ELSE GatePassesOn(resp.out, rest)

\* C4 amended: get_current_user rejects the header for its format exactly
\* when the value, its leading whitespace removed, does not begin with
\* "Bearer " or the remainder is empty or whitespace-only, and otherwise
\* passes the remainder with its surrounding whitespace removed to decoding.
C4_HeaderFormatTrimmed ==
    resp.op = "current_user"
    => LET h == LStrip(resp.in.header)
           rest == SliceFrom(h, Len(BearerPrefix))
       IN  IF ~StartsWith(h, BearerPrefix) \/ AllWhitespace(rest)
             THEN GateRejectsFormat(resp.out)
             ELSE GatePassesOn(resp.out, Strip(rest))

\* A header with white space before "Bearer" and after the token has been
\* accepted and resolved to an identity.
C4_Witness ==
    /\ resp.op = "current_user"
    /\ resp.in.header = <<" ">> \o BearerPrefix \o <<TOK, " ">>
    /\ ~resp.out.raised
    /\ resp.out.decoded = <<TOK>>

\* C5: the admin gate fails with 403 when the identity's administrative flag
\* is false, returns the identity unchanged when it is true, and changes no
\* state.
C5_AdminGate ==
    [][ resp'.op = "admin"
        => LET cu == get_current_user(resp'.in.header, held, db, now)
           IN  /\ UNCHANGED <<db, nextId, now, utcOffset, held, heldInfo, infra, proc, serving>>
               /\ IF cu.raised
                    THEN resp'.out = cu
                  ELSE IF cu.identity.is_superuser
                    THEN /\ ~resp'.out.raised
                         /\ resp'.out.identity = cu.identity
                         /\ resp'.out.effects = <<>>
                    ELSE /\ resp'.out.raised
                         /\ resp'.out.status = 403
                         /\ resp'.out.detail = "Admin access required"
                         /\ resp'.out.effects = <<>> ]_vars

\* An authenticated user without the administrative flag has been refused.
C5_Witness ==
    /\ resp.op = "admin"
    /\ resp.out.raised /\ resp.out.status = 403
    /\ \E r \in db : r.username = DictGet(held.payload, "sub") /\ ~r.is_superuser

\* C6: decode_access_token returns either None or a non-empty subject.
C6_DecodeNoneOrSubject ==
    /\ Security_decode_access_token(held, now) # ""
    /\ JWTHandler_decode_access_token(held, now) # ""

\* C7: create_access_token fails with the invalid-payload error for every
\* claim mapping whose subject is absent or empty, and no token carrying an
\* absent or empty subject is issued.
C7_SubjectRequired ==
    /\ (resp.op \in CreateOps /\ DictGet(resp.in.data, "sub") \in {None, ""})
       => (resp.out.raised /\ resp.out.status = 400)
    /\ SigVerifies(held) => DictGet(held.payload, "sub") \notin {None, ""}

\* C8: for every ttl passed to create_access_token the expiration is the
\* issuance time (the host clock's reading) plus that ttl; the default ttl
\* is used only when no ttl is passed.
C8_ExpirationIsIssuancePlusTtl ==
    (resp.op \in CreateOps /\ ~resp.out.raised)
    => resp.out.token.payload["exp"] =
         (now + utcOffset)
         + (IF resp.in.delta.isNone THEN ACCESS_TOKEN_EXP_MIN
                                    ELSE resp.in.delta.minutes)

\* C9: a token issued at login decodes to its subject at every time less than
\* the configured ttl after issuance and to None from then on, whatever the
\* host's UTC offset.
C9_LoginTokenLifetime ==
    heldInfo.kind = "login"
    => Security_decode_access_token(held, now) =
         IF now - heldInfo.at < ACCESS_TOKEN_EXP_MIN
           THEN heldInfo.data["sub"]
           ELSE None

\* C10: authenticate_user succeeds if and only if both fields are non-empty,
\* a record exists and the password verifies; on success token_type is
\* "bearer" and the token, decoded immediately, yields the username.
C10_AuthenticateSuccess ==
    resp.op = "login"
    => LET u == resp.in.username
           p == resp.in.password
           user == get_user_by_username(db, u)
       IN  /\ (~resp.out.raised)
                <=> ( /\ u # "" /\ p # ""
                      /\ user # NoUser
                      /\ PasswordMatches(p, user.hashed_password) )
           /\ (~resp.out.raised)
                => /\ resp.out.token_type = "bearer"
                   /\ Security_decode_access_token(resp.out.token, now) = u

\* C11: authenticate_user fails with the missing-credentials error (400)
\* whenever the username or the password is empty, and then performs no
\* repository lookup, no password verification and no token issuance: the
\* client's token is the one it had.
C11_MissingCredentials ==
    [][ ( /\ resp'.op = "login"
          /\ (resp'.in.username = "" \/ resp'.in.password = "") )
        => ( /\ resp'.out.raised
             /\ resp'.out.status = 400
             /\ resp'.out.detail = "Username and password required"
             /\ resp'.out.effects = <<>>
             /\ UNCHANGED <<db, nextId, held, heldInfo>> ) ]_vars

\* A registered user has tried to log in with an empty password and got 400.
C11_Witness ==
    /\ resp.op = "login"
    /\ resp.in.username # "" /\ resp.in.password = ""
    /\ get_user_by_username(db, resp.in.username) # NoUser
    /\ resp.out.raised /\ resp.out.status = 400

\* The checks of decoding that the token fails at the time t.
FailsSignature(token) == token.wf /\ token.alg = ALGORITHM /\ ~SigVerifies(token)
FailsAlgorithm(token) == token.wf /\ token.alg # ALGORITHM
FailsExpiration(token, t) == SigVerifies(token) /\ token.payload["exp"] <= t
LacksSubject(token, t) ==
    /\ SigVerifies(token) /\ t < token.payload["exp"]
    /\ DictGet(token.payload, "sub") \in {None, ""}

DecodeFailure(token, t) ==
    \/ ~token.wf
    \/ FailsSignature(token)
    \/ FailsAlgorithm(token)
    \/ FailsExpiration(token, t)
    \/ LacksSubject(token, t)

\* C12: for a well-formed "Bearer <token>" header the response of the
\* request authenticator is the same, in status, message and headers and in
\* the operations performed, whichever check of decoding the token fails:
\* signature, algorithm, expiration or subject.
C12_UniformDecodeFailure ==
    /\ DecodeFailure(held, now)
       => LET out == get_current_user(BearerHeader, held, db, now)
          IN  /\ Observable(out) =
                   Observable(get_current_user(BearerHeader, GarbageToken, db, now))
              /\ out.raised /\ out.status = 401
              /\ out.effects = <<"decode">>
    /\ (resp.op = "current_user" /\ DecodeFailure(held, now))
       => Observable(resp.out) = <<TRUE, 401, "Invalid or expired token", NoHeaders>>

\* A token with a sound signature and time left, whose subject is empty, has
\* been refused as any other failing token is.
C12_Witness ==
    /\ resp.op = "current_user"
    /\ LacksSubject(held, now)
    /\ DictGet(held.payload, "sub") = ""
    /\ resp.out.raised /\ resp.out.status = 401

\* What kind of outcome a resolver of the identity produced: the identity,
\* or the status of the error.
OutcomeKind(out) == <<out.raised, out.status, out.identity>>

\* C14: for every token and every table, dependencies.get_current_user on
\* "Bearer <token>" and AuthService.get_current_user on the token produce
\* the same identity or the same kind of error.
C14_GateDelegates ==
    OutcomeKind(get_current_user(BearerHeader, held, db, now))
      = OutcomeKind(AuthService_get_current_user(db, held, now))

\* C13: the life of a token is issued -> valid -> expired.  Whatever the
\* step (a login, a decode, a request, a registration, a deletion or an
\* update of the user, time passing), a validly signed token with a subject
\* decodes to that subject after the step if the time is then before its
\* expiration, and decodes to None after the step if it did before; what a
\* decode call returns is what the token and the time determine.
C13_TokenLifecycle ==
    [][ /\ now' >= now
        /\ ( SigVerifies(held) /\ DictGet(held.payload, "sub") \notin {None, ""} )
           => ( /\ now' < held.payload["exp"]
                   => Security_decode_access_token(held, now')
                        = DictGet(held.payload, "sub")
                /\ Security_decode_access_token(held, now) = None
                   => Security_decode_access_token(held, now') = None )
        /\ resp'.op = "decode"
           => resp'.out.username =
                IF SigVerifies(held) /\ now < held.payload["exp"]
                  THEN DictGet(held.payload, "sub")
                  ELSE None ]_vars

\* A token issued at login has been decoded to None after its expiration,
\* the user being still registered.
C13_Witness ==
    /\ resp.op = "decode"
    /\ heldInfo.kind = "login"
    /\ now > heldInfo.at /\ now >= held.payload["exp"]
    /\ resp.out.username = None
    /\ get_user_by_username(db, heldInfo.data["sub"]) # NoUser

\* C15: the identity is derived afresh on each request: the outcome of a
\* request presenting a valid token is the one the users table as it is at
\* the time of the request determines -- 404 if no row has the subject as
\* username, otherwise the identity read from that row, and for the admin
\* gate 403 exactly when that row's administrative flag is off -- whatever
\* the row was when the token was issued or last presented.
C15_IdentityFollowsRecord ==
    ( /\ resp.op \in {"current_user", "admin"}
      /\ SigVerifies(held) /\ now < held.payload["exp"]
      /\ DictGet(held.payload, "sub") \notin {None, ""} )
    => LET row == get_user_by_username(db, held.payload["sub"])
       IN  IF row = NoUser
             THEN resp.out.raised /\ resp.out.status = 404
           ELSE IF resp.op = "admin" /\ ~row.is_superuser
             THEN resp.out.raised /\ resp.out.status = 403
             ELSE /\ ~resp.out.raised
                  /\ resp.out.identity = UserResponse(row)

\* The user the token was issued to registered as an administrator and the
\* flag has been taken away since: the admin request presenting the token,
\* still valid, has been refused.
C15_Witness ==
    /\ resp.op = "admin"
    /\ heldInfo.kind = "login"
    /\ now < held.payload["exp"]
    /\ LET row == get_user(db, heldInfo.user_id)
       IN  /\ row # NoUser
           /\ row.username = held.payload["sub"]
           /\ \E u \in RegisterInputs :
                 u.username = row.username /\ u.email = row.email /\ u.is_superuser
           /\ ~row.is_superuser
    /\ resp.out.raised /\ resp.out.status = 403

\* The hashes verify_password may be handed in this state: those stored in
\* the table and the unsound ones.
HashesAtHand == { r.hashed_password : r \in db } \cup CorruptHashes

\* C18: verify_password never raises; it returns false when the plaintext or
\* the hash is empty and whenever the verification function fails; and
\* authenticate_user on a row whose stored hash is unsound fails with the
\* 401 invalid-credentials error.
C18_VerifyNeverRaises ==
    /\ \A p \in PasswordInputs : \A h \in HashesAtHand :
         LET r == Security_verify_password(p, h)
         IN  /\ ~r.raised
             /\ (p = "" \/ h = EmptyHash \/ PwdContextVerify(p, h).raised)
                => ~r.value
    /\ ( /\ resp.op = "login"
         /\ resp.in.username # "" /\ resp.in.password # ""
         /\ infra.repo_ok
         /\ get_user_by_username(db, resp.in.username) # NoUser
         /\ get_user_by_username(db, resp.in.username).hashed_password
              \in CorruptHashes )
       => ( /\ resp.out.raised /\ resp.out.status = 401
            /\ resp.out.detail = "Incorrect username or password" )

\* A login against a row holding a hash of an unknown scheme has been
\* answered with 401.
C18_Witness ==
    /\ resp.op = "login"
    /\ resp.in.password # ""
    /\ get_user_by_username(db, resp.in.username) # NoUser
    /\ get_user_by_username(db, resp.in.username).hashed_password.scheme = "md5"
    /\ resp.out.raised /\ resp.out.status = 401

\* C19: for all non-empty plaintexts p1 and p2, verify_password(p1,
\* hash_password(p2)) is true if and only if p1 = p2.
C19_RoundTrip ==
    ( /\ resp.op = "verify"
      /\ resp.in.password # "" /\ resp.in.hashed_from # "" )
    => ( /\ ~resp.out.raised
         /\ resp.out.value <=> (resp.in.password = resp.in.hashed_from) )

\* C16: the session get_db acquired for a request belongs to that request
\* alone, holds a connection only while the request is being handled, and
\* is closed when the request has completed, whatever its outcome; a
\* completed request has no session only if get_db failed with 503.
C16_SessionReleased ==
    \A r \in Requests :
        /\ reqs[r].db \in {0, r}
        /\ \A q \in Requests \ {r} : reqs[q].db = 0 \/ reqs[q].db # reqs[r].db
        /\ sessions[r].state # "none" => reqs[r].db = r
        /\ sessions[r].state = "active" => reqs[r].pc = "respond"
        /\ reqs[r].pc = "done"
           => /\ sessions[r].state \in {"none", "closed"}
              /\ sessions[r].state = "none" => reqs[r].out.status = 503

\* A request has completed with the generic 500 of an unexpected exception:
\* its session is closed, and it is get_db's own finally clause that closed
\* it, the abandoned generator being not yet finalized.
C16_Witness ==
    \E r \in Requests :
        /\ reqs[r].pc = "done"
        /\ reqs[r].out.raised /\ reqs[r].out.status = 500
        /\ reqs[r].generator = "suspended"
        /\ sessions[r].state = "closed"

\* What the request would get if it were served alone with the same table,
\* token, clock and infrastructure.
ServedAlone(r) ==
    IF reqs[r].met = "engine"
      THEN Raise(503, "Database unavailable", NoHeaders, <<>>)
      ELSE Served(reqs[r].ask)

\* C17: concurrent requests are independent: no step of a request writes
\* state that other requests read (db_manager and its engines are as they
\* were at process start), no request has to wait for a connection another
\* one holds, and each request's outcome is the one it would have alone.
C17_Independent ==
    [][ /\ mgr' = mgr
        /\ engines' = engines
        /\ \A r \in Requests :
             reqs[r].pc = "handle" => PoolHasRoom(sessions[r].engine)
        /\ \A r \in Requests :
             reqs[r].pc \in {"respond", "done"} => reqs[r].out = ServedAlone(r) ]_vars

\* C20: a request that ran into a failure of the infrastructure -- engine
\* creation in get_db, a query of the repository, the signing of the token
\* -- gets a failure whose status is none of 400, 401, 403, 404, never a
\* success; so do create_access_token and AuthService.get_current_user
\* called directly.
C20_InfrastructureFailures ==
    /\ \A r \in Requests :
         reqs[r].met # ""
         => /\ reqs[r].out.raised
            /\ reqs[r].out.status \in {500, 503}
    /\ EncodeRaises
       => \A data \in DataInputs :
            "sub" \in DOMAIN data
            => LET c == Security_create_access_token(data, NoDelta, now, utcOffset)
               IN  c.raised /\ c.status = 500
    /\ (QueryRaises /\ Security_decode_access_token(held, now) # None)
       => LET g == AuthService_get_current_user(db, held, now)
          IN  g.raised /\ g.status = 500

\* A login with the right password has completed with a 500 because the
\* token could not be signed.
C20_Witness ==
    \E r \in Requests :
        /\ reqs[r].pc = "done"
        /\ reqs[r].ask.kind = "login"
        /\ reqs[r].met = "signing"
        /\ reqs[r].out.raised /\ reqs[r].out.status = 500

\* C21: the configuration is validated when the process starts.  With the
\* signing secret absent or empty the start fails, so that no request is
\* served and no token is signed or verified with an empty secret; a
\* process that serves uses the secret of its environment; an algorithm or
\* a ttl that is not set is HS256 or 30 minutes, in the settings and in the
\* tokens made.
C21_FailFast ==
    /\ proc.env.SECRET_KEY \in {None, ""} => proc.pc \in {"start", "failed"}
    /\ resp.op \in {"security_create", "decode"} => Up
    /\ Up => /\ jwt_handler.SECRET_KEY # ""
             /\ jwt_handler.SECRET_KEY = proc.env.SECRET_KEY
    /\ (resp.op = "security_create" /\ ~resp.out.raised)
         => resp.out.token.sig.key = proc.env.SECRET_KEY
    /\ proc.pc \in {"config", "up"} =>
         /\ proc.env.ALGORITHM = None => proc.settings.ALGORITHM = "HS256"
         /\ proc.env.ACCESS_TOKEN_EXP_MIN = None
              => proc.settings.ACCESS_TOKEN_EXP_MIN = 30
    /\ (resp.op = "security_create" /\ ~resp.out.raised) =>
         /\ proc.env.ALGORITHM = None => resp.out.token.alg = "HS256"
         /\ (proc.env.ACCESS_TOKEN_EXP_MIN = None /\ resp.in.delta = NoDelta)
              => resp.out.token.payload["exp"] = now + utcOffset + 30

\* The start has failed on the empty secret of an otherwise complete
\* environment.
C21_Witness ==
    /\ proc.pc = "failed"
    /\ proc.env.SECRET_KEY = ""
    /\ proc.env.DATABASE_URL \notin {None, ""}
    /\ proc.error = "ValueError"

\* C22: registration alone makes no administrator.  After register, login
\* and authenticated requests only, no row carries the administrative flag
\* and no request passes the admin gate.
C22_NoSelfMadeAdmin ==
    /\ \A r \in db : ~r.is_superuser
    /\ resp.op = "admin" => resp.out.raised

\* C23: the administrator made by create_admin_user logs in with the
\* plaintext password given to the script.  Once the script has returned
\* the id of the record it created, the stored hash verifies that password,
\* authenticate_user succeeds with it, and the identity of the token passes
\* the admin gate.
C23_AdminLogsIn ==
    (resp.op = "create_admin" /\ ~resp.out.raised /\ resp.out.user_id # 0) =>
        LET row == get_user(db, resp.out.user_id)
            login == AuthService_authenticate_user(db, resp.in.username,
                                                   resp.in.password, now, utcOffset)
        IN  /\ Security_verify_password(resp.in.password, row.hashed_password).value
            /\ ~login.raised
            /\ LET cu == get_current_user(BearerHeader, login.token, db, now)
               IN  ~cu.raised /\ ~get_admin_user(cu.identity).raised

\* The registrations for username u, and those of them that created a row.
CallsFor(u) == {r \in Requests : reqs[r].pc # "none" /\ reqs[r].user.username = u}

Succeeded(u) == {r \in CallsFor(u) : reqs[r].pc = "done" /\ reqs[r].changed}

\* What holds of every interleaving of registrations: one row a username,
\* at most one successful call a username, and every call that did not
\* create a row answered 400 and left the table as it was.
RegistrationSafe ==
    /\ \A r1, r2 \in db : r1.username = r2.username => r1 = r2
    /\ \A u \in {user.username : user \in RegisterInputs} :
         /\ Cardinality(Succeeded(u)) <= 1
         /\ Cardinality(Succeeded(u)) = Cardinality({row \in db : row.username = u})
    /\ \A r \in Requests :
         (reqs[r].pc = "done" /\ ~reqs[r].changed) =>
             /\ reqs[r].out.status = 400
             /\ reqs[r].why # {}

C25_DeleteReported ==
    \A r \in Requests :
        reqs[r].pc = "done" =>
            /\ (~reqs[r].out.raised /\ reqs[r].out.status = 200)
                 => get_user(db, reqs[r].target) = NoUser
            /\ (reqs[r].called /\ ~reqs[r].removed)
                 => /\ reqs[r].out.raised /\ reqs[r].out.status = 500
                    /\ reqs[r].out.detail = "Failed to delete user"

\* C26: an administrator cannot delete their own record.  A request that
\* ends at the lookup is refused with 404 when its target does not exist
\* and with 400 "Cannot delete self" when its target is the caller's own
\* record, the table staying as it was; and no step of a request removes
\* the row whose id is that of the request's caller.
C26_SelfDeletionRefused ==
    [][ \A r \in Requests :
          LET q == reqs'[r]
              user == get_user(db, reqs[r].target)
          IN  (reqs[r] # q /\ reqs[r].pc # "none") =>
                /\ (reqs[r].pc = "lookup" /\ user = NoUser)
                     => /\ q.pc = "done" /\ q.out.raised /\ q.out.status = 404
                        /\ db' = db
                /\ (reqs[r].pc = "lookup" /\ user # NoUser
                      /\ reqs[r].target = reqs[r].admin_user.user_id)
                     => /\ q.pc = "done" /\ q.out.raised /\ q.out.status = 400
                        /\ q.out.detail = "Cannot delete self"
                        /\ db' = db
                /\ \A row \in db \ db' : row.user_id # reqs[r].admin_user.user_id
      ]_vars

\* An administrator's request for their own id has been refused, and their
\* record is in the table.
C26_Witness ==
    \E r \in Requests :
        /\ reqs[r].pc = "done"
        /\ reqs[r].admin_user.is_superuser
        /\ reqs[r].target = reqs[r].admin_user.user_id
        /\ reqs[r].out.raised /\ reqs[r].out.status = 400
        /\ get_user(db, reqs[r].target) # NoUser

\* C27: a token resolves only to the record that authenticated to obtain
\* it.  Whenever get_current_user accepts the token of a login, the identity
\* it returns has the user id of the record that logged in.
C27_TokenBoundToRecord ==
    (resp.op = "current_user" /\ ~resp.out.raised /\ heldInfo.kind = "login")
        => resp.out.identity.user_id = heldInfo.user_id

\* The table with the active flag of row u inverted.
Flip(d, u) == (d \ {u}) \cup {[u EXCEPT !.is_active = ~@]}

\* Two outcomes that are equal, but for the is_active field that a returned
\* identity copies from the record.
SameButActive(o1, o2) ==
    o2 = [o1 EXCEPT !.identity.is_active = o2.identity.is_active]

\* C28 as stated: for the table and the table with one row's is_active
\* inverted, authenticate_user, get_current_user and get_admin_user return
\* the same outcome for every input.
C28_SameOutcome ==
    \A u \in db :
        LET d2 == Flip(db, u)
            c1 == get_current_user(BearerHeader, held, db, now)
            c2 == get_current_user(BearerHeader, held, d2, now)
        IN  /\ \A username \in UsernameInputs, password \in PasswordInputs :
                  AuthService_authenticate_user(db, username, password, now, utcOffset)
                    = AuthService_authenticate_user(d2, username, password, now, utcOffset)
            /\ c1 = c2
            /\ ~c1.raised => get_admin_user(c1.identity) = get_admin_user(c2.identity)

\* C28 amended: the authentication layer decides nothing by the active flag.  For
\* the table and the table with one row's is_active inverted,
\* authenticate_user returns the same outcome for every username and
\* password, and get_current_user and get_admin_user return the same
\* outcome for the token at hand, the returned identity differing in its
\* copy of the flag alone.
C28_ActiveFlagIgnored ==
    \A u \in db :
        LET d2 == Flip(db, u)
            c1 == get_current_user(BearerHeader, held, db, now)
            c2 == get_current_user(BearerHeader, held, d2, now)
        IN  /\ \A username \in UsernameInputs, password \in PasswordInputs :
                  AuthService_authenticate_user(db, username, password, now, utcOffset)
                    = AuthService_authenticate_user(d2, username, password, now, utcOffset)
            /\ SameButActive(c1, c2)
            /\ ~c1.raised =>
                  SameButActive(get_admin_user(c1.identity), get_admin_user(c2.identity))

\* A user whose record is not active has logged in and has been
\* authenticated by the token.
C28_Witness ==
    /\ resp.op = "current_user"
    /\ ~resp.out.raised
    /\ ~resp.out.identity.is_active
    /\ heldInfo.kind = "login"

\* The closes performed on the session of request r: one by the finalizer
\* of the abandoned generator, one by get_db when the request ends.
Closes(r) ==
    (IF reqs[r].generator = "finalized" THEN 1 ELSE 0)
      + (IF reqs[r].pc = "done" /\ reqs[r].db # 0 THEN 1 ELSE 0)

\* C29: the session get_db yields is closed exactly once, and only after
\* the handler has finished.  While a request has its session and its
\* handler has not finished, no close has been performed on the session;
\* a request that has ended has had its session closed once.
C29_ClosedOnceAfterHandler ==
    \A r \in Requests :
        /\ reqs[r].pc = "handle" =>
              (Closes(r) = 0 /\ sessions[reqs[r].db].state # "closed")
        /\ (reqs[r].pc = "done" /\ reqs[r].db # 0) => Closes(r) = 1

\* C30: create_admin_user is total and idempotent on non-empty inputs.
\* Every call with non-empty arguments returns: the id of the administrator
\* record it has added when the username was free, and None with the table
\* as it was when the username was taken; the table never holds two records
\* of the username.
C30_AdminIdempotentTotal ==
    [][ (resp'.op = "create_admin" /\ resp'.in.username # ""
           /\ resp'.in.email # "" /\ resp'.in.password # "") =>
          LET free == get_user_by_username(db, resp'.in.username) = NoUser
              made == get_user(db', resp'.out.user_id)
          IN  /\ ~resp'.out.raised
              /\ free => /\ resp'.out.user_id # 0
                         /\ made.username = resp'.in.username /\ made.is_superuser
                         /\ db' = db \cup {made}
              /\ ~free => (resp'.out.user_id = 0 /\ db' = db)
              /\ Cardinality({row \in db' : row.username = resp'.in.username}) <= 1
      ]_vars

====
